---- MODULE Spec2Model ----
\* Verification model of the endole-scraper repository:
\*   - extract_all_data (endole_scraper/common/extract_data.py), the
\*     re-sort / re-read accumulation loop;
\*   - get_company_count, the count precheck;
\*   - the store (business_scraper/common/sqlite_table.py): ingest_dataframe
\*     with its header validation, and the operations wrapped by
\*     sqlite3_process under concurrent callers;
\*   - DataFrameFormatter (endole_scraper/common/format_data.py), the
\*     normalisation of the cells of a batch;
\*   - the three entry points (run.py, run_full_postcodes.py,
\*     run_outbound_codes.py) that drive targets through the pipeline.
EXTENDS Integers, Sequences, FiniteSets, TLC

VARIABLES
    ex,         \* the frame of one extract_all_data call
    cnt,        \* one get_company_count call: the page it fetched and its outcome
    db,         \* the store: committed relation, open connections, last ingest call
    run,        \* one run of an entry point: targets, workers, futures
    fmt         \* one call of the formatter: its argument and its outcome

vars == <<ex, cnt, db, run, fmt>>

----------------------------------------------------------------------------
\* Bounds of the model.

NumKeys == 2        \* distinct 'Company' cell values a page can show
MaxBatch == 2       \* rows the table reader returns in one read
MaxCount == 2       \* largest company_count passed to extract_all_data
MaxControls == 6    \* reorder controls found in the header row

\* Program constant: the cycle budget of extract_all_data.
MaxCycles == 10

Keys == 1..NumKeys
\* The remaining cells of a row: as a view first shows them, or changed.
Vals == {"a", "b"}
Rows == [Company : Keys, val : Vals]
NoRow == [Company |-> 0, val |-> ""]

RECURSIVE SeqsUpTo(_, _)
SeqsUpTo(S, n) ==
    IF n = 0 THEN {<<>>}
    ELSE LET shorter == SeqsUpTo(S, n - 1)
         IN  shorter \cup {Append(s, x) : s \in {t \in shorter : Len(t) = n - 1}, x \in S}

Batches == SeqsUpTo(Rows, MaxBatch)

Min(a, b) == IF a <= b THEN a ELSE b

----------------------------------------------------------------------------
\* pandas helpers used by extract_all_data.

\* DataFrame.drop_duplicates(subset=['Company']) (keep='first', the default):
\* a row is dropped when an earlier row has the same 'Company' cell.
RECURSIVE drop_duplicates(_)
drop_duplicates(df) ==
    IF df = <<>> THEN <<>>
    ELSE LET n == Len(df)
             front == SubSeq(df, 1, n - 1)
         IN  IF \E i \in 1..(n - 1) : df[i].Company = df[n].Company
             THEN drop_duplicates(front)
             ELSE Append(drop_duplicates(front), df[n])

\* pd.concat([full_df, df_cycle]).drop_duplicates(subset=['Company']).reset_index(drop=True)
merge_cycle(full_df, df_cycle) == drop_duplicates(full_df \o df_cycle)

----------------------------------------------------------------------------
\* change_order_of_column: which link of the order menu a call clicks.

\* order_buttons[int(order)]: int(True) = 1, int(False) = 0 (0-based link index).
order_link(order) == IF order THEN 1 ELSE 0

\* The order menu as the code documents it: "the first link is for ascending
\* and the second for descending".
link_effect(link) == IF link = 0 THEN "ascending" ELSE "descending"

\* A plausible slip: only one direction per control.
order_list_single == <<TRUE>>

\* The inner loop's list: for order in [True, False].
order_list == <<TRUE, FALSE>>

\* A plausible slip: the fast path is never taken.
fast_path_never(len, company_count) == FALSE

\* The guard of the early return after the initial read: len(full_df) == company_count.
fast_path(len, company_count) == len = company_count

\* A plausible slip: the budget test is missing.
should_break_no_budget(cycles, len, company_count) == len = company_count

\* A plausible slip: the convergence test is missing.
should_break_no_target(cycles, len, company_count) == cycles = MaxCycles

\* The loop's break condition: cycles == 10 or len(full_df) == company_count.
should_break(cycles, len, company_count) ==
    cycles = MaxCycles \/ len = company_count

----------------------------------------------------------------------------
\* Outcomes of the page collaborators a step of extract_all_data may meet.

OkBatch(b) == [kind |-> "batch", batch |-> b, buttons |-> 0]
OkButtons(n) == [kind |-> "buttons", batch |-> <<>>, buttons |-> n]
RaiseAt(stage) == [kind |-> stage, batch |-> <<>>, buttons |-> 0]

\* Bookkeeping of the keys met in the batches read so far: the row that first
\* carried each key, and the keys in the order they were first met.
FirstIndex(b, k) == CHOOSE i \in 1..Len(b) :
    /\ b[i].Company = k
    /\ \A j \in 1..(i - 1) : b[j].Company # k

RECURSIVE KeysInOrder(_, _)
KeysInOrder(b, known) ==
    IF b = <<>> THEN <<>>
    ELSE IF Head(b).Company \in known THEN KeysInOrder(Tail(b), known)
         ELSE <<Head(b).Company>> \o KeysInOrder(Tail(b), known \cup {Head(b).Company})

NoteBatch(st, b) ==
    LET present == {b[i].Company : i \in 1..Len(b)}
        known == {k \in Keys : st.firstRow[k] # NoRow}
    IN  [st EXCEPT
            !.firstRow = [k \in Keys |->
                IF k \in known THEN st.firstRow[k]
                ELSE IF k \in present THEN b[FirstIndex(b, k)] ELSE NoRow],
            !.keyOrder = @ \o KeysInOrder(b, known)]

\* The frame of extract_all_data at entry. Besides the locals of the function
\* it records what the call has done: reads and re-sorts performed, the links
\* clicked, the log records emitted, the length of the initial batch, and the
\* initial batch itself for as long as the accumulator has not been merged.
ExInit(N) ==
    [pc |-> "expand", company_count |-> N, full_df |-> <<>>,
     nButtons |-> 0, index |-> 0, orderPos |-> 1, cycles |-> 0,
     reads |-> 0, resorts |-> 0, clicks |-> <<>>, enumerated |-> FALSE,
     progressLogs |-> 0, termLogs |-> 0, merged |-> FALSE, failure |-> "none",
     initialLen |-> -1, initial |-> <<>>,
     firstRow |-> [k \in Keys |-> NoRow], keyOrder |-> <<>>]

\* change_viewport_size and expand_all_columns: they succeed or raise.
expand_all_columns(st, o) ==
    IF o.kind = "raise_expand"
    THEN [st EXCEPT !.pc = "raised", !.failure = "expand"]
    ELSE [st EXCEPT !.pc = "initial_read"]

\* full_df = extract_page_table(driver); if len(full_df) == company_count: return
initial_read(st, o) ==
    IF o.kind = "raise_read"
    THEN [st EXCEPT !.pc = "raised", !.failure = "read", !.reads = @ + 1]
    ELSE LET st1 == NoteBatch([st EXCEPT !.full_df = o.batch, !.reads = @ + 1,
                                         !.initialLen = Len(o.batch),
                                         !.initial = o.batch], o.batch)
         IN  IF fast_path(Len(o.batch), st.company_count)
             THEN [st1 EXCEPT !.pc = "returned"]
             ELSE [st1 EXCEPT !.pc = "enumerate"]

\* drop_down_buttons = obtain_drop_down_buttons(driver); an empty list ends the
\* outer loop at once.
obtain_drop_down_buttons(st, o) ==
    IF o.kind = "raise_buttons"
    THEN [st EXCEPT !.pc = "raised", !.failure = "buttons", !.enumerated = TRUE]
    ELSE [st EXCEPT !.enumerated = TRUE, !.nButtons = o.buttons,
                    !.index = 0, !.orderPos = 1,
                    !.pc = IF o.buttons = 0 THEN "returned" ELSE "loop"]

\* change_order_of_column(driver, filter_no, order): click the control, then the
\* link of the order menu.
change_order_of_column(st, filter_no, order) ==
    [st EXCEPT !.clicks = Append(@, [filter_no |-> filter_no, order |-> order,
                                     link |-> order_link(order)])]

\* Leaving the inner loop (break, or its list is used up) moves to the next control.
next_control(st) ==
    [st EXCEPT !.index = @ + 1, !.orderPos = 1,
               !.pc = IF st.index + 1 >= st.nButtons THEN "returned" ELSE "loop"]

\* One iteration of the inner loop "for order in [True, False]".
inner_iteration(st, o) ==
    IF should_break(st.cycles, Len(st.full_df), st.company_count)
    THEN next_control([st EXCEPT !.termLogs = @ + 1])
    ELSE
        LET logged == [st EXCEPT !.progressLogs = @ + 1, !.resorts = @ + 1]
            order == order_list[st.orderPos]
        IN  IF o.kind = "raise_resort"
            THEN [logged EXCEPT !.pc = "raised", !.failure = "resort"]
            ELSE
                LET sorted == change_order_of_column(logged, st.index, order)
                IN  IF o.kind = "raise_read"
                    THEN [sorted EXCEPT !.pc = "raised", !.failure = "read",
                                        !.reads = @ + 1]
                    ELSE
                        LET read == NoteBatch([sorted EXCEPT !.reads = @ + 1], o.batch)
                            done == [read EXCEPT
                                        !.full_df = merge_cycle(st.full_df, o.batch),
                                        !.merged = TRUE,
                                        !.initial = <<>>,
                                        !.cycles = @ + 1]
                        IN  IF st.orderPos < Len(order_list)
                            THEN [done EXCEPT !.orderPos = @ + 1]
                            ELSE next_control(done)

ExDone(st) == st.pc \in {"returned", "raised"}

\* One step of the call, chosen by where the call stands.
ex_step(st, o) ==
    CASE st.pc = "expand" -> expand_all_columns(st, o)
      [] st.pc = "initial_read" -> initial_read(st, o)
      [] st.pc = "enumerate" -> obtain_drop_down_buttons(st, o)
      [] st.pc = "loop" -> inner_iteration(st, o)
      [] OTHER -> st

\* The whole call against a page that answers with the outcomes of `script`,
\* one per step.
RECURSIVE extract_all_data(_, _)
extract_all_data(st, script) ==
    IF ExDone(st) THEN st
    ELSE extract_all_data(ex_step(st, Head(script)), Tail(script))

----------------------------------------------------------------------------
\* Specification of one extract_all_data call, step by step.

CntIdle == [pc |-> "idle"]
DbIdle == [pc |-> "idle"]
RunIdle == [pc |-> "idle"]
FmtIdle == [pc |-> "idle"]

InitExtract ==
    /\ \E N \in 0..MaxCount : ex = ExInit(N)
    /\ fmt = FmtIdle
    /\ cnt = CntIdle
    /\ db = DbIdle
    /\ run = RunIdle

ExpandAllColumns ==
    /\ ex.pc = "expand"
    /\ \E o \in {OkBatch(<<>>), RaiseAt("raise_expand")} : ex' = expand_all_columns(ex, o)
    /\ UNCHANGED <<cnt, db, run, fmt>>

InitialRead ==
    /\ ex.pc = "initial_read"
    /\ \E o \in {OkBatch(b) : b \in Batches} \cup {RaiseAt("raise_read")} :
           ex' = initial_read(ex, o)
    /\ UNCHANGED <<cnt, db, run, fmt>>

ObtainDropDownButtons ==
    /\ ex.pc = "enumerate"
    /\ \E o \in {OkButtons(n) : n \in 0..MaxControls} \cup {RaiseAt("raise_buttons")} :
           ex' = obtain_drop_down_buttons(ex, o)
    /\ UNCHANGED <<cnt, db, run, fmt>>

\* The page is consulted only by an iteration that does not break.
InnerIteration ==
    /\ ex.pc = "loop"
    /\ \E o \in IF should_break(ex.cycles, Len(ex.full_df), ex.company_count)
                 THEN {OkBatch(<<>>)}
                 ELSE {OkBatch(b) : b \in Batches}
                      \cup {RaiseAt("raise_resort"), RaiseAt("raise_read")} :
           ex' = inner_iteration(ex, o)
    /\ UNCHANGED <<cnt, db, run, fmt>>

NextExtract ==
    \/ ExpandAllColumns
    \/ InitialRead
    \/ ObtainDropDownButtons
    \/ InnerIteration

SpecExtract == InitExtract /\ [][NextExtract]_vars

----------------------------------------------------------------------------
\* get_company_count: the count precheck.

MaxText == 4        \* characters of the header text

\* Characters the header text is made of: digits, a minus sign, a space and a
\* letter.
Digits == {"0", "1", "2", "5"}
Chars == Digits \cup {"-", " ", "C"}
Texts == SeqsUpTo(Chars, MaxText)

\* The fetched page: the response status, whether the 'explorer-header'
\* element and its h2 exist, and the h2's text.
Pages == [status_code : {200, 404}, has_header : BOOLEAN, has_h2 : BOOLEAN,
          text : Texts]

DigitValue(c) == CASE c = "0" -> 0 [] c = "1" -> 1 [] c = "2" -> 2 [] c = "5" -> 5

\* company_count_text.split(' ')[0]: the characters before the first space.
RECURSIVE first_token(_)
first_token(text) ==
    IF text = <<>> \/ Head(text) = " " THEN <<>>
    ELSE <<Head(text)>> \o first_token(Tail(text))

RECURSIVE digits_value(_)
digits_value(ds) ==
    IF ds = <<>> THEN 0
    ELSE 10 * digits_value(SubSeq(ds, 1, Len(ds) - 1)) + DigitValue(ds[Len(ds)])

AllDigits(ds) == ds # <<>> /\ \A i \in 1..Len(ds) : ds[i] \in Digits

\* int(token): an optional sign followed by at least one digit; anything else
\* raises ValueError.
int_parses(tok) ==
    \/ AllDigits(tok)
    \/ tok # <<>> /\ Head(tok) = "-" /\ AllDigits(Tail(tok))

int_value(tok) ==
    IF Head(tok) = "-" THEN 0 - digits_value(Tail(tok)) ELSE digits_value(tok)

Return(v) == [kind |-> "return", value |-> v, why |-> ""]
ValueError(why) == [kind |-> "ValueError", value |-> 0, why |-> why]

get_company_count(page) ==
    IF page.status_code # 200 THEN ValueError("status")
    ELSE IF ~page.has_header THEN ValueError("header")
    ELSE IF ~page.has_h2 THEN ValueError("h2")
    ELSE LET tok == first_token(page.text)
         IN  IF int_parses(tok) THEN Return(int_value(tok))
             ELSE ValueError("parse")

InitCount ==
    /\ ex = ExInit(0)
    /\ fmt = FmtIdle
    /\ \E page \in Pages : cnt = [pc |-> "call", page |-> page]
    /\ db = DbIdle
    /\ run = RunIdle

GetCompanyCount ==
    /\ cnt.pc = "call"
    /\ cnt' = [pc |-> "done", page |-> cnt.page, result |-> get_company_count(cnt.page)]
    /\ UNCHANGED <<ex, db, run, fmt>>

NextCount == GetCompanyCount

SpecCount == InitCount /\ [][NextCount]_vars

----------------------------------------------------------------------------
\* The store: BuildDatabase.ingest_dataframe under the sqlite3_process wrapper,
\* for the Endole relation (primary key COMPANY).

\* DEFAULT_SCHEMA.keys(), cut down to the columns the model's batches carry.
SchemaColumns == {"COMPANY", "NET_ASSETS", "ADDRESS", "POSTCODE"}

\* Column names a batch may carry: schema names in several letter cases, the
\* raw headers of the page table, and the load-date stamp.
CompanyHeaders == {"COMPANY", "Company", "company"}
OtherHeaders == {"NET_ASSETS", "net_assets", "Net Assets", "Telephone", "POSTCODE"}
Headers == CompanyHeaders \cup OtherHeaders \cup SchemaColumns \cup {"LOAD_DATE"}

\* str.lower on the names above.
lower(h) ==
    CASE h \in {"COMPANY", "Company", "company"} -> "company"
      [] h \in {"NET_ASSETS", "net_assets"} -> "net_assets"
      [] h = "Net Assets" -> "net assets"
      [] h = "Telephone" -> "telephone"
      [] h = "POSTCODE" -> "postcode"
      [] h = "ADDRESS" -> "address"
      [] h = "LOAD_DATE" -> "load_date"

\* A plausible slip: the header is compared without lower-casing it.
header_in_schema_case_sensitive(h) == h \in SchemaColumns

\* header.lower() in map(str.lower, schema.keys())
header_in_schema(h) == lower(h) \in {lower(c) : c \in SchemaColumns}

RECURSIVE Filter(_, _)
Filter(seq, keep) ==
    IF seq = <<>> THEN <<>>
    ELSE IF Head(seq) \in keep THEN <<Head(seq)>> \o Filter(Tail(seq), keep)
         ELSE Filter(Tail(seq), keep)

\* _validate_headers: the headers not in the schema, in column order; a
\* non-empty list raises ValueError naming them.
mismatched_headers(headers) ==
    Filter(headers, {h \in Headers : ~header_in_schema(h)})

\* if load_date: df['LOAD_DATE'] = self.load_date (a new last column, or the
\* existing one overwritten); headers = df.columns.tolist()
stamped_columns(columns, load_date) ==
    IF load_date /\ \A i \in 1..Len(columns) : columns[i] # "LOAD_DATE"
    THEN Append(columns, "LOAD_DATE")
    ELSE columns

\* The rows of a batch whose INSERT succeeds before the first one that the
\* primary key rejects: `held` are the COMPANY values in the relation and in
\* the transaction so far.
RECURSIVE insert_rows(_, _)
insert_rows(rows, held) ==
    IF rows = <<>> THEN [inserted |-> <<>>, failed |-> FALSE]
    ELSE IF Head(rows).COMPANY \in held
         THEN [inserted |-> <<>>, failed |-> TRUE]
         ELSE LET rest == insert_rows(Tail(rows), held \cup {Head(rows).COMPANY})
              IN  [inserted |-> <<Head(rows)>> \o rest.inserted, failed |-> rest.failed]

SeqToSet(seq) == {seq[i] : i \in 1..Len(seq)}

\* The store after create_table: an empty relation, no connection open.
DbInit(relation) == [pc |-> "ready", relation |-> relation, open_conns |-> 0,
                     last |-> [outcome |-> "none"]]

\* ingest_dataframe(df, load_date) as func_wrapper runs it: connect, validate
\* the headers, INSERT row by row, commit and close. An exception leaves
\* func_wrapper before commit and close: the connection stays open and what it
\* inserted is never committed.
ingest_dataframe(d, df, load_date) ==
    LET headers == stamped_columns(df.columns, load_date)
        bad == mismatched_headers(headers)
        ins == insert_rows(df.rows, {r.COMPANY : r \in d.relation})
        call == [columns |-> df.columns, load_date |-> load_date, headers |-> headers,
                 rows |-> df.rows, before |-> d.relation]
    IN  IF bad # <<>>
        THEN [d EXCEPT !.open_conns = @ + 1,
                       !.last = [outcome |-> "ValueError", listed |-> bad,
                                 executed |-> 0, call |-> call]]
        ELSE IF ins.failed
        THEN [d EXCEPT !.open_conns = @ + 1,
                       !.last = [outcome |-> "IntegrityError", listed |-> <<>>,
                                 executed |-> Len(ins.inserted), call |-> call]]
        ELSE [d EXCEPT !.relation = @ \cup SeqToSet(df.rows),
                       !.last = [outcome |-> "ok", listed |-> <<>>,
                                 executed |-> Len(df.rows), call |-> call]]

\* Batches handed to the store alone: a COMPANY column in some letter case,
\* then up to two more columns; the rows carry their COMPANY and POSTCODE.
ColumnLists ==
    {<<c>> : c \in CompanyHeaders}
    \cup {<<c, h>> : c \in CompanyHeaders, h \in OtherHeaders}
    \cup {<<c, h, g>> : c \in CompanyHeaders,
                        h \in {"NET_ASSETS", "net_assets", "Net Assets"},
                        g \in {"Telephone", "POSTCODE"}}

StoreRows == [COMPANY : Keys, POSTCODE : {0}]

\* What earlier runs left in the relation: any rows with pairwise distinct
\* COMPANY values.
Relations == {rel \in SUBSET StoreRows :
                 \A r1, r2 \in rel : r1.COMPANY = r2.COMPANY => r1 = r2}

\* One ingest_dataframe call on a store that earlier runs have filled.
InitIngest ==
    /\ ex = ExInit(0)
    /\ fmt = FmtIdle
    /\ cnt = CntIdle
    /\ \E rel \in Relations : db = DbInit(rel)
    /\ run = RunIdle

IngestDataframe ==
    /\ db.pc = "ready"
    /\ db.last.outcome = "none"
    /\ \E columns \in ColumnLists, rows \in SeqsUpTo(StoreRows, MaxBatch),
          load_date \in BOOLEAN :
           db' = ingest_dataframe(db, [columns |-> columns, rows |-> rows], load_date)
    /\ UNCHANGED <<ex, cnt, run, fmt>>

NextIngest == IngestDataframe

SpecIngest == InitIngest /\ [][NextIngest]_vars

----------------------------------------------------------------------------
\* The store under concurrent callers: every operation that sqlite3_process
\* wraps, statement by statement. func_wrapper connects, runs the wrapped
\* function, then commits and closes; it has no try/finally, so an exception
\* of the wrapped function leaves func_wrapper with the connection open.

\* Threads that call the store at the same time, each on its own connection.
Callers == {1, 2}
NoCaller == 0

\* A plausible slip: create_table leaves the primary-key clause out.
EndoleTableNoKey ==
    [name |-> "ENDOLE", columns |-> SchemaColumns, primary_key |-> {}]

\* The relation create_table declares for Endole: DEFAULT_PATH,
\* DEFAULT_SCHEMA and PRIMARY_KEY.
EndoleTable ==
    [name |-> "ENDOLE", columns |-> SchemaColumns, primary_key |-> {"COMPANY"}]

\* Column lists of the batches handed to the store by the entry points:
\* formatted, and as the page table is read.
StoreColumnLists == {<<"COMPANY", "NET_ASSETS", "POSTCODE">>,
                     <<"Company", "Net Assets", "Telephone">>}

\* The COMPANY values of the batches handed to the store: none, one, or two
\* (alike or not).
StoreKeyLists == SeqsUpTo(Keys, 2)

\* file_path arguments of create_database_from_file.
Files == {"missing.csv", "data.txt", "data.csv"}

\* A call as func_wrapper runs it. Besides the arguments it records what the
\* store looked like when the call connected: whether the relation existed
\* (a create_table call) and the COMPANY values it held (an ingest call).
NoCall == [pc |-> "idle", op |-> "none", columns |-> <<>>, rows |-> <<>>,
           file |-> "", next |-> 1, error |-> "none", result |-> {},
           existed |-> FALSE, seen |-> {}]

\* The connections a caller's call has opened and not closed, and the rows
\* its transaction has inserted and not committed.
NoConn == [open |-> 0, pending |-> <<>>]

\* The database file: the tables of its schema, the committed rows of the
\* relation, the connection that holds the write lock, and each caller's
\* connection and call.
StoreInit(schema, relation) ==
    [pc |-> "shared", schema |-> schema, relation |-> relation,
     writer |-> NoCaller,
     conn |-> [c \in Callers |-> NoConn],
     call |-> [c \in Callers |-> NoCall]]

table_exists(d) == \E i \in 1..Len(d.schema) : d.schema[i].name = "ENDOLE"

\* The primary-key columns of the relation as it was created.
primary_key(d) ==
    LET i == CHOOSE j \in 1..Len(d.schema) : d.schema[j].name = "ENDOLE"
    IN  d.schema[i].primary_key

\* func_wrapper up to the call of the wrapped function: sqlite3.connect and
\* conn.cursor().
connect(d, c, op, columns, rows, file) ==
    [d EXCEPT !.conn[c] = [open |-> 1, pending |-> <<>>],
              !.call[c] = [NoCall EXCEPT !.pc = "body", !.op = op,
                                         !.columns = columns, !.rows = rows,
                                         !.file = file,
                                         !.existed = (op = "create_table" /\ table_exists(d)),
                                         !.seen = IF op = "ingest_dataframe"
                                                  THEN {r.COMPANY : r \in d.relation}
                                                  ELSE {}]]

\* An exception leaves the wrapped function and func_wrapper: conn.commit()
\* and conn.close() are not reached.
raise(d, c, error) ==
    [d EXCEPT !.call[c].pc = "raised", !.call[c].error = error]

\* Another connection holds the write lock: a write statement waits, and
\* raises OperationalError (database is locked) when its timeout expires.
locked_out(d, c) == d.writer \notin {NoCaller, c}

\* A plausible slip: CREATE TABLE without IF NOT EXISTS.
create_table_unconditional(d, c) ==
    IF table_exists(d) \/ locked_out(d, c) THEN raise(d, c, "OperationalError")
    ELSE [d EXCEPT !.schema = Append(@, EndoleTable), !.call[c].pc = "commit"]

\* create_table: CREATE TABLE IF NOT EXISTS ENDOLE (columns, PRIMARY KEY).
create_table(d, c) ==
    IF table_exists(d) THEN [d EXCEPT !.call[c].pc = "commit"]
    ELSE IF locked_out(d, c) THEN raise(d, c, "OperationalError")
    ELSE [d EXCEPT !.schema = Append(@, EndoleTable), !.call[c].pc = "commit"]

\* ingest_dataframe up to its loop: headers = df.columns.tolist();
\* self._validate_headers(headers, self.DEFAULT_SCHEMA).
validate_headers(d, c) ==
    IF mismatched_headers(d.call[c].columns) # <<>> THEN raise(d, c, "ValueError")
    ELSE [d EXCEPT !.call[c].pc = IF d.call[c].rows = <<>> THEN "commit" ELSE "insert"]

\* The COMPANY values an INSERT on c's connection collides with: the
\* committed rows and the rows of c's own transaction.
held_keys(d, c) ==
    {r.COMPANY : r \in d.relation}
    \cup {d.conn[c].pending[i].COMPANY : i \in 1..Len(d.conn[c].pending)}

\* The INSERT went through: the row joins c's transaction, which holds the
\* write lock from now on.
row_inserted(d, c) ==
    [d EXCEPT !.conn[c].pending = Append(@, d.call[c].rows[d.call[c].next]),
              !.writer = c,
              !.call[c].next = @ + 1,
              !.call[c].pc = IF d.call[c].next = Len(d.call[c].rows)
                             THEN "commit" ELSE "insert"]

\* A plausible slip: INSERT OR IGNORE, a colliding row is skipped.
insert_row_or_ignore(d, c) ==
    IF ~table_exists(d) \/ locked_out(d, c) THEN raise(d, c, "OperationalError")
    ELSE IF /\ "COMPANY" \in primary_key(d)
            /\ d.call[c].rows[d.call[c].next].COMPANY \in held_keys(d, c)
         THEN [d EXCEPT !.writer = c,
                        !.call[c].next = @ + 1,
                        !.call[c].pc = IF d.call[c].next = Len(d.call[c].rows)
                                       THEN "commit" ELSE "insert"]
         ELSE row_inserted(d, c)

\* One pass of the loop of ingest_dataframe: cursor.execute(INSERT INTO ...).
\* The statement needs the table and the write lock, and the primary key
\* rejects a COMPANY value that is held already (IntegrityError).
insert_row(d, c) ==
    IF ~table_exists(d) \/ locked_out(d, c) THEN raise(d, c, "OperationalError")
    ELSE IF /\ "COMPANY" \in primary_key(d)
            /\ d.call[c].rows[d.call[c].next].COMPANY \in held_keys(d, c)
         THEN [raise(d, c, "IntegrityError") EXCEPT !.writer = c]
         ELSE row_inserted(d, c)

\* execute_query with the query of the entry points, SELECT DISTINCT POSTCODE
\* FROM ENDOLE: the committed values.
execute_query(d, c) ==
    IF ~table_exists(d) THEN raise(d, c, "OperationalError")
    ELSE [d EXCEPT !.call[c].pc = "commit",
                   !.call[c].result = {r.POSTCODE : r \in d.relation}]

\* get_columns: PRAGMA table_info(ENDOLE), empty when there is no table.
get_columns(d, c) ==
    [d EXCEPT !.call[c].pc = "commit",
              !.call[c].result = IF table_exists(d) THEN SchemaColumns ELSE {}]

\* create_database_from_file: a missing file and an unsupported suffix raise;
\* otherwise it calls self.ingest_dataframe(cursor=cursor, ...), that is
\* func_wrapper again, which opens a second connection and then passes two
\* values for `cursor` (TypeError).
create_database_from_file(d, c) ==
    IF d.call[c].file = "missing.csv" THEN raise(d, c, "FileNotFoundError")
    ELSE IF d.call[c].file = "data.txt" THEN raise(d, c, "TypeError")
    ELSE [raise(d, c, "TypeError") EXCEPT !.conn[c].open = @ + 1]

\* func_wrapper after the wrapped function returned: conn.commit(),
\* conn.close(), return output.
commit_close(d, c) ==
    [d EXCEPT !.relation = @ \cup SeqToSet(d.conn[c].pending),
              !.writer = IF @ = c THEN NoCaller ELSE @,
              !.conn[c] = NoConn,
              !.call[c] = [NoCall EXCEPT !.pc = "returned", !.op = d.call[c].op,
                                         !.result = d.call[c].result,
                                         !.existed = d.call[c].existed]]

\* The connection object of a call that raised is destroyed once nothing
\* refers to the exception any more: what it had not committed is rolled
\* back and its lock released.
drop_connection(d, c) ==
    [d EXCEPT !.writer = IF @ = c THEN NoCaller ELSE @,
              !.conn[c] = NoConn,
              !.call[c] = [NoCall EXCEPT !.pc = "raised", !.op = d.call[c].op,
                                         !.error = d.call[c].error]]

StoreOps == {"create_table", "ingest_dataframe", "execute_query", "get_columns",
             "create_database_from_file"}

\* The rows of a batch of caller c, which tags them with a POSTCODE of its own
\* (the rows of earlier runs carry POSTCODE 0).
TaggedRows(keys, c) == [i \in 1..Len(keys) |-> [COMPANY |-> keys[i], POSTCODE |-> c]]

\* pd.read_csv(file_path): the frame of the one readable file, a row of a
\* company no earlier run stored under the columns of the schema.
FileFrame(file, c) ==
    IF file = "data.csv"
    THEN [columns |-> <<"COMPANY", "POSTCODE">>, rows |-> TaggedRows(<<NumKeys>>, c)]
    ELSE [columns |-> <<>>, rows |-> <<>>]

\* What an earlier run left in the relation, when it left anything.
EarlierRows == {[COMPANY |-> 1, POSTCODE |-> 0]}

\* The database file is new, or holds the relation, empty or not.
InitStore ==
    /\ ex = ExInit(0)
    /\ fmt = FmtIdle
    /\ cnt = CntIdle
    /\ \/ db = StoreInit(<<>>, {})
       \/ \E rel \in {{}, EarlierRows} : db = StoreInit(<<EndoleTable>>, rel)
    /\ run = RunIdle

\* A caller enters func_wrapper for one of the wrapped operations.
Connect(c) ==
    /\ db.call[c].pc \in {"idle", "returned", "raised"}
    /\ db.conn[c].open = 0
    /\ \/ \E op \in {"create_table", "execute_query", "get_columns"} :
             db' = connect(db, c, op, <<>>, <<>>, "")
       \/ \E columns \in StoreColumnLists, keys \in StoreKeyLists :
             db' = connect(db, c, "ingest_dataframe", columns, TaggedRows(keys, c), "")
       \/ \E file \in Files :
             db' = connect(db, c, "create_database_from_file",
                           FileFrame(file, c).columns, FileFrame(file, c).rows, file)
    /\ UNCHANGED <<ex, cnt, run, fmt>>

CreateTable(c) ==
    /\ db.call[c].pc = "body" /\ db.call[c].op = "create_table"
    /\ db' = create_table(db, c)
    /\ UNCHANGED <<ex, cnt, run, fmt>>

ValidateHeaders(c) ==
    /\ db.call[c].pc = "body" /\ db.call[c].op = "ingest_dataframe"
    /\ db' = validate_headers(db, c)
    /\ UNCHANGED <<ex, cnt, run, fmt>>

InsertRow(c) ==
    /\ db.call[c].pc = "insert"
    /\ db' = insert_row(db, c)
    /\ UNCHANGED <<ex, cnt, run, fmt>>

ExecuteQuery(c) ==
    /\ db.call[c].pc = "body" /\ db.call[c].op = "execute_query"
    /\ db' = execute_query(db, c)
    /\ UNCHANGED <<ex, cnt, run, fmt>>

GetColumns(c) ==
    /\ db.call[c].pc = "body" /\ db.call[c].op = "get_columns"
    /\ db' = get_columns(db, c)
    /\ UNCHANGED <<ex, cnt, run, fmt>>

CreateDatabaseFromFile(c) ==
    /\ db.call[c].pc = "body" /\ db.call[c].op = "create_database_from_file"
    /\ db' = create_database_from_file(db, c)
    /\ UNCHANGED <<ex, cnt, run, fmt>>

CommitClose(c) ==
    /\ db.call[c].pc = "commit"
    /\ db' = commit_close(db, c)
    /\ UNCHANGED <<ex, cnt, run, fmt>>

DropConnection(c) ==
    /\ db.call[c].pc = "raised"
    /\ db.conn[c].open > 0
    /\ db' = drop_connection(db, c)
    /\ UNCHANGED <<ex, cnt, run, fmt>>

NextStore ==
    \/ \E c \in Callers : Connect(c)
    \/ \E c \in Callers : CreateTable(c)
    \/ \E c \in Callers : ValidateHeaders(c)
    \/ \E c \in Callers : InsertRow(c)
    \/ \E c \in Callers : ExecuteQuery(c)
    \/ \E c \in Callers : GetColumns(c)
    \/ \E c \in Callers : CreateDatabaseFromFile(c)
    \/ \E c \in Callers : CommitClose(c)
    \/ \E c \in Callers : DropConnection(c)

SpecStore == InitStore /\ [][NextStore]_vars

----------------------------------------------------------------------------
\* DataFrameFormatter: the normalisation of the cells of a batch.

MaxCurrency == 4    \* characters of a currency text

\* A cell is None or a text (a sequence of characters); a formatter returns a
\* cell, an int, a float (counted in ten-thousandths), or raises.
Null == [kind |-> "null", text |-> <<>>, value |-> 0]
Text(t) == [kind |-> "text", text |-> t, value |-> 0]
IntCell(v) == [kind |-> "int", text |-> <<>>, value |-> v]
FloatCell(v) == [kind |-> "float", text |-> <<>>, value |-> v]
Raised(error) == [kind |-> error, text |-> <<>>, value |-> 0]

\* The text the page shows for a missing value: the one placeholder glyph.
Sentinel == <<"dash">>

\* '0123456789.-' and string.ascii_letters, as far as the texts of the model
\* reach.
NumeralChars == Digits \cup {".", "-"}
Letters == {"k", "m"}
CurrencyChars == NumeralChars \cup Letters \cup {","}
CurrencyTexts == SeqsUpTo(CurrencyChars, MaxCurrency)

\* Two longer texts, with two decimals before the suffix.
LongerTexts == {<<"2", ".", "0", "1", "k">>, <<"2", ".", "0", "5", "k">>}

RECURSIVE Pow10(_)
Pow10(n) == IF n = 0 THEN 1 ELSE 10 * Pow10(n - 1)

\* A numeral without its sign, the place of its decimal point (one past the
\* end when it has none), and the digits on either side.
unsigned(s) == IF s # <<>> /\ Head(s) = "-" THEN Tail(s) ELSE s
point(b) == IF \E i \in 1..Len(b) : b[i] = "."
            THEN CHOOSE i \in 1..Len(b) : b[i] = "." /\ \A j \in 1..(i - 1) : b[j] # "."
            ELSE Len(b) + 1
int_digits(b) == SubSeq(b, 1, point(b) - 1)
frac_digits(b) == SubSeq(b, point(b) + 1, Len(b))

\* float(numerals) accepts an optional sign, then digits with at most one
\* decimal point and at least one digit; anything else raises ValueError.
float_parses(s) ==
    LET b == unsigned(s)
    IN  /\ \A i \in 1..Len(b) : b[i] # "-"
        /\ Cardinality({i \in 1..Len(b) : b[i] = "."}) <= 1
        /\ \E i \in 1..Len(b) : b[i] \in Digits

\* multipliers = {'k': 1000, 'm': 1000000}
multipliers(alpha) == IF alpha = <<"k">> THEN 1000 ELSE 1000000

\* float(numerals) * multiplier is a product of binary doubles. Among the
\* numerals of up to four characters it falls just below the whole number
\* that the decimal product is for these (2.01 * 1000 is 2009.9999999999998).
DoubleShortfall ==
    {<<(<<"2", ".", "0", "1">>), 1000>>,
     <<(<<"2", ".", "0", "1">>), 1000000>>,
     <<(<<"2", ".", "0", "5">>), 1000000>>}

\* int(float(numerals) * multiplier): the product, truncated towards zero.
int_of_product(s, multiplier) ==
    LET b == unsigned(s)
        digits == digits_value(int_digits(b) \o frac_digits(b))
        scale == Pow10(Len(frac_digits(b)))
        decimal == IF scale <= multiplier THEN digits * (multiplier \div scale)
                   ELSE digits \div (scale \div multiplier)
        magnitude == IF <<b, multiplier>> \in DoubleShortfall THEN decimal - 1
                     ELSE decimal
    IN  IF s[1] = "-" THEN 0 - magnitude ELSE magnitude

\* _format_currency: None and '' are returned as they are; with letters in
\* the text the numerals are read as a float and multiplied, without letters
\* the numerals go to int() as a string.
format_currency(currency) ==
    IF currency.kind # "text" \/ currency.text = <<>> THEN currency
    ELSE LET numerals == Filter(currency.text, NumeralChars)
             alpha_chars == Filter(currency.text, Letters)
         IN  IF alpha_chars # <<>>
             THEN IF ~float_parses(numerals) THEN Raised("ValueError")
                  ELSE IF alpha_chars \notin {<<"k">>, <<"m">>} THEN Raised("KeyError")
                  ELSE IntCell(int_of_product(numerals, multipliers(alpha_chars)))
             ELSE IF int_parses(numerals) THEN IntCell(int_value(numerals))
                  ELSE Raised("ValueError")

\* round(float(numerals) / 100, 4), in ten-thousandths: the numeral rounded
\* to two decimals, a tie going to the even neighbour.
round4(s) ==
    LET b == unsigned(s)
        scale == Pow10(Len(frac_digits(b)))
        hundredths == digits_value(int_digits(b) \o frac_digits(b)) * 100
        q == hundredths \div scale
        r == hundredths % scale
        magnitude == IF 2 * r > scale \/ (2 * r = scale /\ q % 2 = 1) THEN q + 1 ELSE q
    IN  IF s[1] = "-" THEN 0 - magnitude ELSE magnitude

\* _format_percentages: a non-empty str with numerals in it becomes a float;
\* everything else is returned as it is.
format_percentages(perc_str) ==
    IF perc_str.kind = "text" /\ perc_str.text # <<>>
    THEN LET numerals == Filter(perc_str.text, NumeralChars)
         IN  IF numerals = <<>> THEN perc_str
             ELSE IF float_parses(numerals) THEN FloatCell(round4(numerals))
             ELSE Raised("ValueError")
    ELSE perc_str

\* Date texts are made of these pieces; strptime(date_str, '%d %b %Y') reads
\* day, month name and year.
Days == {"01", "15"}
Months == {"Jan"}
Years == {"2020"}
strptime_parses(t) ==
    /\ Len(t) = 5
    /\ t[1] \in Days /\ t[2] = " " /\ t[3] \in Months /\ t[4] = " " /\ t[5] \in Years

\* _format_date: a text that parses is rewritten '%Y-%m-%d %H:%M:%S'; one
\* that does not is returned as it is, as are None and ''.
format_date(date_str) ==
    IF date_str.kind = "text" /\ date_str.text # <<>> /\ strptime_parses(date_str.text)
    THEN Text(<<date_str.text[5], "-", "01", "-", date_str.text[1], " ", "00:00:00">>)
    ELSE date_str

\* A plausible slip: the placeholder is left in the cells.
replace_hyphens_with_none_skipped(cell) == cell

\* _replace_hyphens_with_none, for one cell: None if x == placeholder else x.
replace_hyphens_with_none(cell) == IF cell = Text(Sentinel) THEN Null ELSE cell

\* str.split('  '): the pieces of a text between its double spaces.
RECURSIVE split(_)
split(t) ==
    IF \E i \in 1..Len(t) : t[i] = "  "
    THEN LET i == CHOOSE k \in 1..Len(t) : t[k] = "  " /\ \A j \in 1..(k - 1) : t[j] # "  "
         IN  <<SubSeq(t, 1, i - 1)>> \o split(SubSeq(t, i + 1, Len(t)))
    ELSE <<t>>

\* The headers of the page table that the model's batches carry, and
\* columns_mapping on them (Telephone is dropped before the renaming).
RawHeaders == {"Company", "Status", "Net Assets", "Incorporation", "Turnover %",
               "Telephone", "POSTCODE"}
columns_mapping(h) ==
    CASE h = "Company" -> "COMPANY"
      [] h = "Status" -> "STATUS"
      [] h = "Net Assets" -> "NET_ASSETS"
      [] h = "Incorporation" -> "INCORPORATION"
      [] h = "Turnover %" -> "TURNOVER_PERC"
      [] h = "POSTCODE" -> "POSTCODE"
KeptHeaders == RawHeaders \ {"Telephone"}
currency_cols == {"NET_ASSETS"}
date_cols == {"INCORPORATION"}
perc_cols == {"TURNOVER_PERC"}

\* One cell through the column loops of format_dataframe: the placeholder
\* replaced, then the formatter of the column's kind.
format_cell(column, cell) ==
    LET x == replace_hyphens_with_none(cell)
    IN  IF column \in currency_cols THEN format_currency(x)
        ELSE IF column \in date_cols THEN format_date(x)
        ELSE IF column \in perc_cols THEN format_percentages(x)
        ELSE x

Max(a, b) == IF a >= b THEN a ELSE b

\* The number of columns of df['COMPANY'].str.split('  ', expand=True): the
\* most pieces any row has.
RECURSIVE split_width(_)
split_width(cells) ==
    IF cells = <<>> THEN 0
    ELSE LET c == Head(cells)
         IN  Max(IF c.kind = "text" THEN Len(split(c.text)) ELSE 0,
                 split_width(Tail(cells)))

\* DataFrameFormatter(dataframe).format_dataframe(): Telephone dropped, the
\* columns renamed, the placeholder replaced, the typed columns formatted
\* (an exception of a formatter leaves format_dataframe), then COMPANY split
\* into COMPANY and ADDRESS, which raises ValueError unless the split is two
\* columns wide.
format_dataframe_cells(frame) ==
    LET rows == 1..Len(frame)
        cell(i, h) == format_cell(columns_mapping(h), frame[i][h])
        failed == {<<i, h>> \in rows \X KeptHeaders :
                      cell(i, h).kind \in {"ValueError", "KeyError"}}
        company == [i \in rows |-> cell(i, "Company")]
        piece(i, k) ==
            IF company[i].kind = "text" /\ k <= Len(split(company[i].text))
            THEN Text(split(company[i].text)[k])
            ELSE Null
    IN  IF failed # {}
        THEN [kind |-> (CHOOSE e \in {cell(p[1], p[2]).kind : p \in failed} : TRUE),
              rows |-> <<>>]
        ELSE IF split_width(company) # 2
        THEN [kind |-> "ValueError", rows |-> <<>>]
        ELSE [kind |-> "frame",
              rows |-> [i \in rows |->
                  [c \in {columns_mapping(h) : h \in KeptHeaders} \cup {"ADDRESS"} |->
                      IF c = "COMPANY" THEN piece(i, 1)
                      ELSE IF c = "ADDRESS" THEN piece(i, 2)
                      ELSE cell(i, CHOOSE h \in KeptHeaders : columns_mapping(h) = c)]]]

\* Cells of the page table, by the kind of their column.
CompanyCells == {Text(Sentinel), Text(<<"ACME LTD", "  ", "1 HIGH ST">>), Text(<<"ACME LTD">>)}
CurrencyCells == {Text(Sentinel), Text(<<"2", "5", "0", "k">>), Text(<<"1", ".", "5", "m">>),
                  Text(<<"1", "2">>), Text(<<"1", ".", "5">>)}
DateCells == {Text(Sentinel), Text(<<"15", " ", "Jan", " ", "2020">>), Text(<<"Jan", " ", "2020">>)}
PercCells == {Text(Sentinel), Text(<<"1", "2", ".", "5", "%">>), Text(<<"-", "5", "%">>)}
StatusCells == {Text(Sentinel), Text(<<"Active">>)}

RawRow(company, status, net_assets, incorporation, turnover_perc) ==
    [h \in RawHeaders |->
        CASE h = "Company" -> company
          [] h = "Status" -> status
          [] h = "Net Assets" -> net_assets
          [] h = "Incorporation" -> incorporation
          [] h = "Turnover %" -> turnover_perc
          [] h = "Telephone" -> Text(Sentinel)
          [] h = "POSTCODE" -> Text(<<"AB1-2CD">>)]

\* A row with every cell filled in, as most rows of a page are.
FullRow == RawRow(Text(<<"BETA LTD", "  ", "2 LOW RD">>), Text(<<"Active">>),
                  Text(<<"1", "2">>), Text(<<"01", " ", "Jan", " ", "2020">>),
                  Text(<<"5", "0", "%">>))

\* One format_dataframe call on a tagged batch of two rows.
InitFormat ==
    /\ ex = ExInit(0)
    /\ cnt = CntIdle
    /\ db = DbIdle
    /\ run = RunIdle
    /\ \E company \in CompanyCells, status \in StatusCells, net_assets \in CurrencyCells,
          incorporation \in DateCells, turnover_perc \in PercCells :
          fmt = [pc |-> "call", fn |-> "format_dataframe",
                 arg |-> <<RawRow(company, status, net_assets, incorporation,
                                  turnover_perc), FullRow>>]

FormatDataframe ==
    /\ fmt.pc = "call" /\ fmt.fn = "format_dataframe"
    /\ fmt' = [fmt EXCEPT !.pc = "done"] @@ [result |-> format_dataframe_cells(fmt.arg)]
    /\ UNCHANGED <<ex, cnt, db, run>>

NextFormat == FormatDataframe

SpecFormat == InitFormat /\ [][NextFormat]_vars

\* One _format_currency call.
InitCurrency ==
    /\ ex = ExInit(0)
    /\ cnt = CntIdle
    /\ db = DbIdle
    /\ run = RunIdle
    /\ \E currency \in {Null} \cup {Text(t) : t \in CurrencyTexts \cup LongerTexts} :
          fmt = [pc |-> "call", fn |-> "format_currency", arg |-> currency]

FormatCurrency ==
    /\ fmt.pc = "call" /\ fmt.fn = "format_currency"
    /\ fmt' = [fmt EXCEPT !.pc = "done"] @@ [result |-> format_currency(fmt.arg)]
    /\ UNCHANGED <<ex, cnt, db, run>>

NextCurrency == FormatCurrency

SpecCurrency == InitCurrency /\ [][NextCurrency]_vars

----------------------------------------------------------------------------
\* The batch of one target on its way from the page to the store: what
\* extract_all_data returns (de-duplicated on the raw 'Company' cell), what
\* format_dataframe makes of it (COMPANY and ADDRESS from the split), and its
\* INSERTs into an empty relation keyed on COMPANY.

\* Raw 'Company' cells of a page: a name and an address joined by a double
\* space. Two companies of one name at two addresses are two distinct cells.
CompanyTexts == {<<"ACME LTD", "  ", "1 HIGH ST">>, <<"ACME LTD", "  ", "2 LOW RD">>,
                 <<"BETA LTD", "  ", "2 LOW RD">>}
PageRow(company) == [FullRow EXCEPT !["Company"] = Text(company)]
PageBatches == SeqsUpTo({PageRow(c) : c \in CompanyTexts}, MaxBatch)

\* extract_all_data on a page with a sort control whose first read is
\* `initial` and whose reads after a re-sort are `df_cycle`: the early return
\* of the first read, or the accumulator of the merges (merging the same
\* read again changes nothing).
returned_frame(initial, df_cycle, company_count) ==
    IF fast_path(Len(initial), company_count) THEN initial
    ELSE merge_cycle(initial, df_cycle)

InitHandover ==
    /\ ex = ExInit(0)
    /\ cnt = CntIdle
    /\ db = DbIdle
    /\ run = RunIdle
    /\ \E initial \in PageBatches, df_cycle \in PageBatches, N \in 1..MaxCount :
          fmt = [pc |-> "call", fn |-> "extract_data_for_postcode",
                 company_count |-> N, initial |-> initial, df_cycle |-> df_cycle,
                 full_df |-> <<>>, result |-> [kind |-> "none", rows |-> <<>>],
                 outcome |-> "none", executed |-> 0]

\* df = extract_all_data(driver=driver, company_count=company_count)
ExtractBatch ==
    /\ fmt.pc = "call" /\ fmt.fn = "extract_data_for_postcode"
    /\ fmt' = [fmt EXCEPT !.pc = "extracted",
                          !.full_df = returned_frame(fmt.initial, fmt.df_cycle,
                                                     fmt.company_count)]
    /\ UNCHANGED <<ex, cnt, db, run>>

\* df = formatter.format_dataframe(); an exception makes df None.
FormatBatch ==
    /\ fmt.pc = "extracted"
    /\ fmt' = [fmt EXCEPT !.pc = "formatted",
                          !.result = format_dataframe_cells(fmt.full_df)]
    /\ UNCHANGED <<ex, cnt, db, run>>

\* if df is not None: endole.ingest_dataframe(df=df), the relation empty.
IngestBatch ==
    /\ fmt.pc = "formatted"
    /\ LET ins == insert_rows(fmt.result.rows, {})
       IN  fmt' = [fmt EXCEPT
                     !.pc = "ingested",
                     !.executed = Len(ins.inserted),
                     !.outcome = IF fmt.result.kind # "frame" THEN "skipped"
                                 ELSE IF ins.failed THEN "IntegrityError"
                                 ELSE "ok"]
    /\ UNCHANGED <<ex, cnt, db, run>>

NextHandover == ExtractBatch \/ FormatBatch \/ IngestBatch

SpecHandover == InitHandover /\ [][NextHandover]_vars

----------------------------------------------------------------------------
\* The entry points: main of run.py ("run": a thread pool per chunk of
\* targets), of run_full_postcodes.py ("full": a pool of one worker) and of
\* run_outbound_codes.py ("outbound": a plain loop), each driving
\* process_postcode -> extract_data_for_postcode -> ingest_dataframe.

NumTargets == 2     \* targets listed in postcodes.json
NumWorkers == 2     \* num_threads of run.py's pool

Targets == 1..NumTargets
EntryPoints == {"run", "full", "outbound"}

\* max_workers of the executor; the plain loop handles one target at a time.
pool_size(entry) == IF entry = "run" THEN NumWorkers ELSE 1

NoDf == [none |-> TRUE, columns |-> <<>>, rows |-> <<>>]

\* Headers of the page table as extract_all_data returns it, and the columns
\* after format_dataframe (Telephone dropped, names mapped, POSTCODE added).
RawColumns == <<"Company", "Net Assets", "Telephone">>
FormattedColumns == <<"COMPANY", "NET_ASSETS", "ADDRESS", "POSTCODE">>

\* df['POSTCODE'] = postcode; DataFrameFormatter(df).format_dataframe(): each
\* (distinct) Company cell of the model stands for one company name.
format_dataframe(full_df, postcode) ==
    [none |-> FALSE, columns |-> FormattedColumns,
     rows |-> [i \in 1..Len(full_df) |->
                  [COMPANY |-> full_df[i].Company, POSTCODE |-> postcode]]]

\* run_outbound_codes.py ingests what extract_all_data returned, unformatted.
raw_dataframe(full_df) ==
    [none |-> FALSE, columns |-> RawColumns,
     rows |-> [i \in 1..Len(full_df) |->
                  [COMPANY |-> full_df[i].Company, POSTCODE |-> 0]]]

\* A plausible slip: the except branch keeps what was accumulated.
try_extract_keep_partial(entry, postcode, st, format_ok) ==
    IF entry = "outbound" THEN raw_dataframe(st.full_df)
    ELSE format_dataframe(st.full_df, postcode)

\* The try block of extract_data_for_postcode: the frame `st` that
\* extract_all_data ended in, then tagging and formatting (not in "outbound");
\* except Exception: df = None.
try_extract(entry, postcode, st, format_ok) ==
    IF st.pc = "raised" THEN NoDf
    ELSE IF entry = "outbound" THEN raw_dataframe(st.full_df)
    ELSE IF format_ok THEN format_dataframe(st.full_df, postcode)
    ELSE NoDf

\* Pages the count precheck may fetch during a run.
CountPage(text) == [status_code |-> 200, has_header |-> TRUE, has_h2 |-> TRUE,
                    text |-> text]
RunPages ==
    {CountPage(<<"0", " ", "C">>), CountPage(<<"1", " ", "C">>),
     CountPage(<<"2", " ", "C">>), CountPage(<<"-", "1", " ", "C">>),
     [CountPage(<<"1">>) EXCEPT !.status_code = 404]}

\* How the page may answer one extract_all_data call during a run: each
\* script is the outcomes of the call's steps in order.
RowOne == [Company |-> 1, val |-> "a"]
RowTwo == [Company |-> 2, val |-> "a"]
Expanded == OkBatch(<<>>)
RunScripts ==
    {<<RaiseAt("raise_expand")>>,
     <<Expanded, RaiseAt("raise_read")>>,
     <<Expanded, OkBatch(<<RowOne>>), OkButtons(0)>>,
     <<Expanded, OkBatch(<<RowOne, RowOne>>), OkButtons(0)>>,
     <<Expanded, OkBatch(<<RowOne>>), RaiseAt("raise_buttons")>>,
     <<Expanded, OkBatch(<<RowOne>>), OkButtons(1), OkBatch(<<RowTwo>>), OkBatch(<<RowTwo>>)>>,
     <<Expanded, OkBatch(<<RowTwo>>), OkButtons(1), RaiseAt("raise_resort")>>,
     <<Expanded, OkBatch(<<RowOne>>), OkButtons(1), OkBatch(<<RowTwo>>), RaiseAt("raise_read")>>}

TaskInit == [pc |-> "pending", company_count |-> 0, session |-> FALSE, df |-> NoDf,
             failure |-> "none", partial |-> 0, ingests |-> 0, raised_at |-> "none",
             collected |-> FALSE, starts |-> 0]

\* main at its start: nothing read yet, no target submitted, ip_change_lock
\* free (0, or the target whose worker holds it). `earlier` is what earlier
\* runs had persisted when this one began.
RunInit(entry) == [pc |-> "start", entry |-> entry,
                   task |-> [t \in Targets |-> TaskInit], logged |-> {},
                   earlier |-> {}, postcodes_set |-> {}, to_scrape |-> {},
                   queries |-> 0, ip_change_lock |-> 0]

Finished(t) == run.task[t].pc \in {"done", "raised"}
Active(t) == run.task[t].pc \notin {"pending", "done", "raised"}

\* An exception leaves process_postcode. In the pools it is stored in the
\* task's future; in the plain loop of "outbound" it leaves main.
raise_in_task(r, t, where) ==
    [r EXCEPT !.task[t].pc = "raised", !.task[t].raised_at = where,
              !.pc = IF r.entry = "outbound" THEN "aborted" ELSE @]

\* What earlier runs may have left in the store: nothing, or the rows of the
\* first target.
EarlierRuns == {{}, {[COMPANY |-> 2, POSTCODE |-> 1]}}

InitRun ==
    /\ ex = ExInit(0)
    /\ fmt = FmtIdle
    /\ cnt = CntIdle
    /\ \E rel \in EarlierRuns, entry \in EntryPoints :
          /\ db = DbInit(rel)
          /\ run = [RunInit(entry) EXCEPT !.earlier = {r.POSTCODE : r \in rel}]

\* A plausible slip: the check against the persisted postcodes is left out.
not_in_postcodes_set_unchecked(t, postcodes_set) == TRUE

\* f"{outward_code}-{i}".upper() not in postcodes_set
not_in_postcodes_set(t, postcodes_set) == t \notin postcodes_set

\* The targets main goes on to process: run.py and run_full_postcodes.py keep
\* those not in postcodes_set; run_outbound_codes.py makes no such check.
to_scrape(entry, postcodes_set) ==
    IF entry = "outbound" THEN Targets
    ELSE {t \in Targets : not_in_postcodes_set(t, postcodes_set)}

\* main before its loop: endole.create_table(), then (run.py and
\* run_full_postcodes.py) postcodes_set = set(endole.execute_query("SELECT
\* DISTINCT POSTCODE FROM ENDOLE")), then the list of targets.
ReadPersisted ==
    /\ run.pc = "start"
    /\ LET postcodes_set == IF run.entry = "outbound" THEN {}
                            ELSE {r.POSTCODE : r \in db.relation}
       IN  run' = [run EXCEPT !.pc = "running",
                              !.postcodes_set = postcodes_set,
                              !.queries = IF run.entry = "outbound" THEN 0 ELSE 1,
                              !.to_scrape = to_scrape(run.entry, postcodes_set)]
    /\ UNCHANGED <<ex, cnt, db, fmt>>

\* A worker of the pool takes a submitted target; the plain loop takes the
\* next target once the one before it has returned.
StartTarget(t) ==
    /\ run.pc = "running"
    /\ run.task[t].pc = "pending"
    /\ t \in run.to_scrape
    /\ Cardinality({u \in Targets : Active(u)}) < pool_size(run.entry)
    /\ run.entry = "outbound" => \A u \in Targets : u < t => run.task[u].pc = "done"
    /\ run' = [run EXCEPT !.task[t].pc = "count", !.task[t].starts = @ + 1]
    /\ UNCHANGED <<ex, cnt, db, fmt>>

\* company_count = get_company_count(url); a zero count returns None.
CountPrecheck(t) ==
    /\ run.pc = "running"
    /\ run.task[t].pc = "count"
    /\ \E page \in RunPages :
          LET result == get_company_count(page)
          IN  run' = IF result.kind = "ValueError" THEN raise_in_task(run, t, "count")
                     ELSE IF result.value = 0 THEN [run EXCEPT !.task[t].pc = "done"]
                     ELSE [run EXCEPT !.task[t].pc = "session",
                                      !.task[t].company_count = result.value]
    /\ UNCHANGED <<ex, cnt, db, fmt>>

\* orb = OrbDriver(); driver = orb.get_webdriver(url=url)
GetWebdriver(t) ==
    /\ run.pc = "running"
    /\ run.task[t].pc = "session"
    /\ \E ok \in BOOLEAN :
          run' = IF ok THEN [run EXCEPT !.task[t].pc = "manage", !.task[t].session = TRUE]
                 ELSE raise_in_task(run, t, "session")
    /\ UNCHANGED <<ex, cnt, db, fmt>>

\* driver = manage_browser_settings(driver, orb), outside the try block. Its
\* first part: the viewport change, when the draw asks for it, returns or
\* raises; then the draw for the change of network identity.
ManageBrowserSettings(t) ==
    /\ run.pc = "running"
    /\ run.task[t].pc = "manage"
    /\ \E o \in {"raise", "rotate", "keep"} :
          run' = IF o = "raise" THEN raise_in_task(run, t, "manage")
                 ELSE [run EXCEPT !.task[t].pc = IF o = "rotate" THEN "lock" ELSE "refresh"]
    /\ UNCHANGED <<ex, cnt, db, fmt>>

\* A plausible slip: the rotation is entered without taking the lock.
lock_free_unchecked(lock) == TRUE

\* threading.Lock: acquire returns once no thread holds the lock.
lock_free(lock) == lock = 0

\* with ip_change_lock: entering the block.
AcquireLock(t) ==
    /\ run.pc = "running"
    /\ run.task[t].pc = "lock"
    /\ lock_free(run.ip_change_lock)
    /\ run' = [run EXCEPT !.ip_change_lock = t, !.task[t].pc = "rotate"]
    /\ UNCHANGED <<ex, cnt, db, fmt>>

\* The body of the with block: orb.change_ip_address() and time.sleep(7)
\* (run.py), PiaVpn().rotate_vpn() and orb.refresh_driver() (the others).
\* Leaving the block, by its end or by an exception, releases the lock.
RotateIdentity(t) ==
    /\ run.pc = "running"
    /\ run.task[t].pc = "rotate"
    /\ \E ok \in BOOLEAN :
          LET released == [run EXCEPT !.ip_change_lock = 0]
          IN  run' = IF ok THEN [released EXCEPT !.task[t].pc = "refresh"]
                     ELSE raise_in_task(released, t, "rotate")
    /\ UNCHANGED <<ex, cnt, db, fmt>>

\* The last part of manage_browser_settings: the driver refresh, when the
\* draw asks for it (run.py: driver.close(); driver = orb.get_webdriver()),
\* returns the session the target goes on with, or raises: before the old
\* session was closed, or after it with no replacement made; return driver.
RefreshDriver(t) ==
    /\ run.pc = "running"
    /\ run.task[t].pc = "refresh"
    /\ \E o \in {"ok", "raise", "raise_closed"} :
          run' = IF o = "ok" THEN [run EXCEPT !.task[t].pc = "extract"]
                 ELSE IF o = "raise" THEN raise_in_task(run, t, "manage")
                 ELSE raise_in_task([run EXCEPT !.task[t].session = FALSE], t, "manage")
    /\ UNCHANGED <<ex, cnt, db, fmt>>

\* The try block, its except branch, driver.quit() and the return of df.
ExtractDataForPostcode(t) ==
    /\ run.pc = "running"
    /\ run.task[t].pc = "extract"
    /\ \E script \in RunScripts, format_ok \in BOOLEAN :
          LET st == extract_all_data(ExInit(run.task[t].company_count), script)
              df == try_extract(run.entry, t, st, format_ok)
          IN  run' = [run EXCEPT
                        !.task[t].pc = "ingest",
                        !.task[t].company_count = 0,
                        !.task[t].session = FALSE,
                        !.task[t].df = df,
                        !.task[t].failure =
                            IF st.pc = "raised" THEN st.failure
                            ELSE IF run.entry # "outbound" /\ ~format_ok THEN "format"
                            ELSE "none",
                        !.task[t].partial = IF st.pc = "raised" THEN Len(st.full_df) ELSE 0]
    /\ UNCHANGED <<ex, cnt, db, fmt>>

\* if df is not None: endole.ingest_dataframe(df=df)
IngestTarget(t) ==
    /\ run.pc = "running"
    /\ run.task[t].pc = "ingest"
    /\ IF run.task[t].df.none
       THEN /\ run' = [run EXCEPT !.task[t].pc = "done"]
            /\ db' = db
       ELSE LET d == ingest_dataframe(db, run.task[t].df, FALSE)
                counted == [run EXCEPT !.task[t].ingests = @ + 1,
                                       !.task[t].df = NoDf]
            IN  /\ db' = d
                /\ run' = IF d.last.outcome = "ok"
                          THEN [counted EXCEPT !.task[t].pc = "done"]
                          ELSE raise_in_task(counted, t, "ingest")
    /\ UNCHANGED <<ex, cnt, fmt>>

\* for future in as_completed(futures): try: future.result()
\* except Exception: log.error(...)  -- the two pools only.
CollectFuture(t) ==
    /\ run.pc = "running"
    /\ run.entry # "outbound"
    /\ Finished(t)
    /\ ~run.task[t].collected
    /\ run' = [run EXCEPT !.task[t].collected = TRUE,
                          !.logged = IF run.task[t].pc = "raised" THEN @ \cup {t} ELSE @]
    /\ UNCHANGED <<ex, cnt, db, fmt>>

\* main returns: every future collected, or the plain loop at its end.
FinishRun ==
    /\ run.pc = "running"
    /\ IF run.entry = "outbound"
       THEN \A t \in run.to_scrape : run.task[t].pc = "done"
       ELSE \A t \in run.to_scrape : run.task[t].collected
    /\ run' = [run EXCEPT !.pc = "finished"]
    /\ UNCHANGED <<ex, cnt, db, fmt>>

NextRun ==
    \/ ReadPersisted
    \/ \E t \in Targets : StartTarget(t)
    \/ \E t \in Targets : CountPrecheck(t)
    \/ \E t \in Targets : GetWebdriver(t)
    \/ \E t \in Targets : ManageBrowserSettings(t)
    \/ \E t \in Targets : AcquireLock(t)
    \/ \E t \in Targets : RotateIdentity(t)
    \/ \E t \in Targets : RefreshDriver(t)
    \/ \E t \in Targets : ExtractDataForPostcode(t)
    \/ \E t \in Targets : IngestTarget(t)
    \/ \E t \in Targets : CollectFuture(t)
    \/ FinishRun

SpecRun == InitRun /\ [][NextRun]_vars

----------------------------------------------------------------------------
\* Properties of extract_all_data.

\* C1: in one call of extract_all_data the number of re-sort operations (calls
\* of change_order_of_column) never exceeds 10, whatever the target count, the
\* number of reorder controls and the batches the table reader returns.
C1_ResortBudget == ex.resorts <= MaxCycles

\* A call that used the whole budget and returned short of the target.
C1_Witness ==
    /\ ex.pc = "returned"
    /\ ex.resorts = MaxCycles
    /\ ex.nButtons > 5
    /\ Len(ex.full_df) < ex.company_count

\* C2: when the initial read returns exactly company_count rows, the call
\* returns that batch: the reorder controls are never enumerated, no control
\* is clicked and the initial read stays the only table read.
C2_FastPath ==
    (ex.initialLen = ex.company_count) =>
        /\ ex.pc = "returned"
        /\ ~ex.enumerated
        /\ ex.resorts = 0
        /\ ex.clicks = <<>>
        /\ ex.reads = 1
        /\ ex.full_df = ex.initial

\* The fast path taken on a non-empty batch.
C2_Witness ==
    /\ ex.pc = "returned"
    /\ ex.initialLen = ex.company_count
    /\ ex.company_count > 0

\* C3 (as claimed): a call that returns hands back an accumulator holding each
\* Company key met in any batch read during the call exactly once, with the
\* row of the earliest batch that carried the key, keys in first-seen order.
C3_FirstSeenUnion ==
    (ex.pc = "returned") =>
        /\ \A k \in Keys : (ex.firstRow[k] # NoRow) =>
              /\ Cardinality({i \in 1..Len(ex.full_df) : ex.full_df[i].Company = k}) = 1
              /\ \E i \in 1..Len(ex.full_df) : ex.full_df[i] = ex.firstRow[k]
        /\ [i \in 1..Len(ex.full_df) |-> ex.full_df[i].Company] = ex.keyOrder

\* C4: once the accumulator has length company_count after a merge, the call
\* performs no further re-sort and no further table read, and the accumulator
\* is returned as it is.
C4_StopAtTarget ==
    [][(ex.merged /\ Len(ex.full_df) = ex.company_count) =>
          /\ ex'.resorts = ex.resorts
          /\ ex'.reads = ex.reads
          /\ ex'.clicks = ex.clicks
          /\ ex'.full_df = ex.full_df
          /\ ex'.pc \in {"loop", "returned"}]_vars

\* The target was reached by a merge while controls were still left, and the
\* call went on to return.
C4_Witness ==
    /\ ex.pc = "returned"
    /\ ex.merged
    /\ Len(ex.full_df) = ex.company_count
    /\ ex.cycles < Min(MaxCycles, 2 * ex.nButtons)
    /\ ex.termLogs > 1

\* C5 (as claimed): the controls are visited in document order and each is
\* re-sorted ascending first, descending second; order=True selects the
\* ascending link and order=False the descending link.
C5_AscendingThenDescending ==
    \A i \in 1..Len(ex.clicks) :
        /\ ex.clicks[i].filter_no = (i - 1) \div 2
        /\ link_effect(ex.clicks[i].link) =
              (IF i % 2 = 1 THEN "ascending" ELSE "descending")
        /\ ex.clicks[i].order = (link_effect(ex.clicks[i].link) = "ascending")

\* C6: when no collaborator raises and the accumulator never has length
\* company_count, the call terminates and returns the partial accumulator
\* after min(10, 2 * number of controls) cycles: the budget, or every control
\* applied in both directions, whichever comes first. Termination: the inner
\* loop body (one log record each time) runs at most twice per control, and a
\* call that has neither returned nor raised always has a next step.
C6_SoftFailure ==
    /\ (ExDone(ex) /\ ex.failure = "none" /\ Len(ex.full_df) # ex.company_count) =>
          /\ ex.pc = "returned"
          /\ ex.cycles = Min(MaxCycles, 2 * ex.nButtons)
          /\ ex.resorts = ex.cycles
          /\ ex.reads = ex.cycles + 1
    /\ ex.progressLogs + ex.termLogs <= 2 * ex.nButtons
    /\ ex.index <= ex.nButtons
    /\ ~ExDone(ex) => ENABLED NextExtract

\* Every control applied in both directions, within the budget, target missed.
C6_Witness ==
    /\ ex.pc = "returned"
    /\ ex.nButtons = 2
    /\ ex.cycles = 4
    /\ ex.full_df # <<>>
    /\ Len(ex.full_df) < ex.company_count

----------------------------------------------------------------------------
\* Properties of the entry points.

\* C7 (as claimed): in every entry point, when processing one target raises
\* (count precheck, browser session, extraction, normalization or ingest) the
\* error is caught and logged and the remaining targets are still processed:
\* main never ends with a target left unprocessed or an error unlogged.
C7_RunSurvivesBadTarget ==
    /\ run.pc # "aborted"
    /\ (run.pc = "finished") =>
          \A t \in run.to_scrape :
              /\ Finished(t)
              /\ run.task[t].pc = "raised" => t \in run.logged

\* C8: when a re-sort or a table read raises inside extract_all_data for a
\* target, the exception leaves extract_all_data, the accumulator collected so
\* far is dropped (df is None), ingest_dataframe is never called for that
\* target and the store holds no row of it (other than what an earlier run
\* had stored).
C8_PartialDiscarded ==
    \A t \in Targets :
        (run.task[t].failure \in {"resort", "read"}) =>
            /\ run.task[t].df = NoDf
            /\ run.task[t].ingests = 0
            /\ run.task[t].pc \in {"ingest", "done"}
            /\ \A r \in db.relation : (r.POSTCODE = t) => t \in run.earlier

\* A read raised after two rows were accumulated for one target; the target
\* ended without an ingest while another target's rows were stored.
C8_Witness ==
    /\ run.entry = "run"
    /\ run.pc = "finished"
    /\ \E t \in Targets :
          /\ run.task[t].failure = "read"
          /\ run.task[t].partial = 2
          /\ run.task[t].pc = "done"
    /\ db.relation # {}

----------------------------------------------------------------------------
\* Properties of get_company_count.

\* C9 (as claimed): get_company_count either raises ValueError or returns the
\* non-negative integer at the start of the header text; it never returns a
\* negative value.
C9_NonNegativeCount ==
    (cnt.pc = "done") =>
        \/ cnt.result.kind = "ValueError"
        \/ cnt.result.kind = "return" /\ cnt.result.value \in Nat

----------------------------------------------------------------------------
\* Properties of ingest_dataframe.

\* The column names of the validated batch that no schema column matches when
\* letter case is ignored.
Unrecognized(headers) ==
    {h \in SeqToSet(headers) : \A c \in SchemaColumns : lower(h) # lower(c)}

\* C10: an ingest of a batch with a column name that matches no schema column
\* (letter case ignored) raises the validation error, which names exactly the
\* unrecognized columns and leaves ingest_dataframe for the caller, and no row
\* is inserted; a batch whose column names match the schema up to letter case
\* passes validation and its rows are inserted (all of them, unless the
\* primary key rejects one). The batch is the DataFrame as validated, with the
\* LOAD_DATE column when load_date is set.
C10_SchemaValidation ==
    (db.last.outcome # "none") =>
        LET call == db.last.call
            bad == Unrecognized(call.headers)
            keys == [i \in 1..Len(call.rows) |-> call.rows[i].COMPANY]
            clash == \/ \E i \in 1..Len(keys) : keys[i] \in {r.COMPANY : r \in call.before}
                     \/ \E i, j \in 1..Len(keys) : i # j /\ keys[i] = keys[j]
        IN  /\ (bad # {}) =>
                /\ db.last.outcome = "ValueError"
                /\ SeqToSet(db.last.listed) = bad
                /\ Len(db.last.listed) = Cardinality(bad)
                /\ db.last.executed = 0
                /\ db.relation = call.before
            /\ (bad = {}) =>
                /\ db.last.outcome \in {"ok", "IntegrityError"}
                /\ (db.last.outcome = "ok") <=> ~clash
                /\ (db.last.outcome = "ok") =>
                      /\ db.last.executed = Len(call.rows)
                      /\ db.relation = call.before \cup SeqToSet(call.rows)

\* A batch with two unrecognized columns among recognized ones, rejected on a
\* store that already holds a row.
C10_Witness ==
    /\ db.last.outcome = "ValueError"
    /\ db.last.listed = <<"Net Assets", "Telephone">>
    /\ db.last.call.columns = <<"Company", "Net Assets", "Telephone">>
    /\ db.last.call.rows # <<>>
    /\ db.relation # {}

\* The other case: a batch in other letter case, inserted.
C10_WitnessInserted ==
    /\ db.last.outcome = "ok"
    /\ db.last.call.columns = <<"company", "net_assets", "POSTCODE">>
    /\ db.last.call.rows # <<>>
    /\ db.relation # db.last.call.before

----------------------------------------------------------------------------
\* Properties of the store under concurrent callers.

\* The row the next INSERT of c's ingest call carries collides: its COMPANY
\* value is in the relation, or an earlier row of the batch carried it.
DuplicateKey(c) ==
    LET call == db.call[c]
        key == call.rows[call.next].COMPANY
    IN  \/ key \in {r.COMPANY : r \in db.relation}
        \/ \E j \in 1..(call.next - 1) : call.rows[j].COMPANY = key

\* C11: when a row of a batch passed to ingest_dataframe carries a primary-key
\* value that is already in the relation or that an earlier row of the batch
\* carried, the INSERT raises, the exception ends the whole call and the
\* relation is left as it was: the rows inserted before the failing one stay
\* uncommitted, also when the connection is dropped. The relation only
\* changes when a call commits, and then by all the rows of its batch, none
\* of which collided.
C11_DuplicateKeyFailsWhole ==
    [][/\ \A c \in Callers :
             (db.call[c].pc = "insert" /\ db'.call[c] # db.call[c] /\ DuplicateKey(c)) =>
                 /\ db'.call[c].pc = "raised"
                 /\ db'.call[c].error \in {"IntegrityError", "OperationalError"}
                 /\ db'.relation = db.relation
       /\ \A c \in Callers :
             (db'.call[c].pc = "raised") =>
                 \A r \in db'.relation \ db.relation : r.POSTCODE # c
       /\ (db'.relation # db.relation) =>
             \E c \in Callers :
                 /\ db.call[c].pc = "commit" /\ db'.call[c].pc = "returned"
                 /\ db.conn[c].pending = db.call[c].rows
                 /\ db'.relation = db.relation \cup SeqToSet(db.call[c].rows)
                 /\ \A i, j \in 1..Len(db.call[c].rows) :
                       (db.call[c].rows[i].COMPANY = db.call[c].rows[j].COMPANY) => i = j
                 /\ \A i \in 1..Len(db.call[c].rows) :
                       db.call[c].rows[i].COMPANY \notin {r.COMPANY : r \in db.relation}]_vars

\* The second row of a batch collided after the first was inserted; the first
\* is not in the relation.
C11_Witness ==
    \E c \in Callers :
        /\ db.call[c].pc = "raised"
        /\ db.call[c].error = "IntegrityError"
        /\ Len(db.conn[c].pending) = 1
        /\ db.conn[c].pending[1] \notin db.relation
        /\ db.relation # {}

\* C12 (as claimed): every operation wrapped by sqlite3_process closes the
\* connection it opened on every exit path: once the operation has returned
\* or raised, no connection and no transaction opened by it is still open.
C12_ConnectionReleased ==
    \A c \in Callers :
        (db.call[c].pc \in {"returned", "raised"}) =>
            /\ db.conn[c] = NoConn
            /\ db.writer # c

\* C13: create_table on a store whose relation exists does not raise, and a
\* create_table call, first or repeated, leaves the rows of the relation as
\* they are; the schema never holds more than the one relation, with the
\* declared columns and primary key.
C13_CreateTableIdempotent ==
    [][/\ Len(db'.schema) <= 1
       /\ \A i \in 1..Len(db'.schema) : db'.schema[i] = EndoleTable
       /\ \A c \in Callers :
             (db.call[c].op = "create_table" /\ db'.call[c] # db.call[c]) =>
                 /\ db'.relation = db.relation
                 /\ (db.call[c].pc = "body" /\ table_exists(db)) =>
                       /\ db'.call[c].pc = "commit"
                       /\ db'.schema = db.schema
                 /\ (db.call[c].pc = "commit") =>
                       /\ db'.call[c].pc = "returned"
                       /\ db'.schema = db.schema]_vars

\* Both callers have returned from a create_table on a relation that existed
\* and holds rows.
C13_Witness ==
    /\ \A c \in Callers :
          /\ db.call[c].op = "create_table"
          /\ db.call[c].pc = "returned"
          /\ db.call[c].existed
    /\ db.relation # {}
    /\ Len(db.schema) = 1

\* C16: whatever the interleaving of the ingest calls of concurrent callers,
\* the relation never holds two rows with the same COMPANY value, and no call
\* is about to commit a COMPANY value that the relation holds: of two callers
\* whose batches share a value, the one that comes second is rejected.
C16_NoDuplicateCompany ==
    /\ \A r1, r2 \in db.relation : (r1.COMPANY = r2.COMPANY) => r1 = r2
    /\ \A c \in Callers :
          (db.call[c].pc = "commit") =>
              \A i \in 1..Len(db.conn[c].pending) :
                  db.conn[c].pending[i].COMPANY \notin {r.COMPANY : r \in db.relation}

\* Two callers connected while the relation did not hold the value their
\* batches share; one committed, and the primary key rejected the other.
C16_Witness ==
    \E c \in Callers, r \in db.relation :
        /\ r.POSTCODE \notin {0, c}
        /\ db.call[c].pc = "raised"
        /\ db.call[c].error = "IntegrityError"
        /\ db.call[c].rows[db.call[c].next].COMPANY = r.COMPANY
        /\ r.COMPANY \notin db.call[c].seen

----------------------------------------------------------------------------
\* Properties of a run: the skip check, the rotation lock, the data flow.

\* C14: a run of run.py or run_full_postcodes.py reads the persisted POSTCODE
\* values once, at its start; a target that is in that set is not processed in
\* the run (no count precheck, no browser session, no ingest: its task is
\* never started), and every other target is submitted exactly once and has
\* been processed when the run ends.
C14_SkipPersisted ==
    (run.entry \in {"run", "full"} /\ run.pc # "start") =>
        /\ run.queries = 1
        /\ run.postcodes_set = run.earlier
        /\ \A t \in run.earlier : run.task[t] = TaskInit
        /\ \A t \in Targets \ run.earlier :
              /\ run.task[t].starts <= 1
              /\ (run.pc = "finished") =>
                    /\ run.task[t].starts = 1
                    /\ Finished(t)

\* A run that found the first target persisted, left it alone and stored the
\* rows of the second.
C14_Witness ==
    /\ run.entry = "run"
    /\ run.pc = "finished"
    /\ run.postcodes_set = {1}
    /\ run.task[1].pc = "pending"
    /\ run.task[2].pc = "done"
    /\ run.task[2].ingests = 1
    /\ \E r \in db.relation : r.POSTCODE = 2

\* C15: under every interleaving of the workers of a run at most one worker
\* is inside the change of network identity; the one lock of the run is held
\* exactly while a worker is inside it, so it is released on every exit from
\* the rotation, also when the rotation raises.
C15_RotationExclusive ==
    /\ Cardinality({t \in Targets : run.pc # "idle" /\ run.task[t].pc = "rotate"}) <= 1
    /\ (run.pc # "idle") =>
          \A t \in Targets : (run.task[t].pc = "rotate") <=> (run.ip_change_lock = t)

\* One worker's rotation raised; the lock was released and another worker is
\* inside the rotation.
C15_Witness ==
    \E t, u \in Targets :
        /\ run.task[t].pc = "raised"
        /\ run.task[t].raised_at = "rotate"
        /\ run.task[u].pc = "rotate"
        /\ run.ip_change_lock = u

\* C17 (as claimed): in every entry point a batch reaches ingest_dataframe
\* only tagged with its POSTCODE and formatted by DataFrameFormatter; no raw
\* extracted batch is passed to ingest_dataframe.
C17_OnlyNormalizedIngested ==
    (db.last.outcome # "none") =>
        /\ db.last.call.columns = FormattedColumns
        /\ \A i \in 1..Len(db.last.call.rows) : db.last.call.rows[i].POSTCODE \in Targets

----------------------------------------------------------------------------
\* Properties of DataFrameFormatter.

ClaimedSuffix(t) == IF t # <<>> /\ t[Len(t)] \in Letters THEN <<t[Len(t)]>> ELSE <<>>
ClaimedNumeral(t) == SubSeq(t, 1, Len(t) - Len(ClaimedSuffix(t)))
ClaimedCurrency(t) ==
    /\ \A i \in 1..Len(ClaimedNumeral(t)) : ClaimedNumeral(t)[i] \in NumeralChars
    /\ float_parses(ClaimedNumeral(t))

\* C19 (as claimed): _format_currency returns an integer in base units: the
\* numeral times 1000 with suffix k, times 1000000 with suffix m, and the
\* numeral itself without a suffix, for every numeral made of digits with an
\* optional sign and decimal point.
C19_CurrencyBaseUnits ==
    (fmt.pc = "done" /\ fmt.fn = "format_currency" /\ fmt.arg.kind = "text"
        /\ ClaimedCurrency(fmt.arg.text)) =>
        LET b == unsigned(ClaimedNumeral(fmt.arg.text))
            digits == digits_value(int_digits(b) \o frac_digits(b))
            scale == Pow10(Len(frac_digits(b)))
            factor == IF ClaimedSuffix(fmt.arg.text) = <<"k">> THEN 1000
                      ELSE IF ClaimedSuffix(fmt.arg.text) = <<"m">> THEN 1000000
                      ELSE 1
            signed == IF fmt.arg.text[1] = "-" THEN 0 - digits ELSE digits
        IN  /\ fmt.result.kind = "int"
            /\ fmt.result.value * scale = signed * factor

----------------------------------------------------------------------------
\* Properties of the log records of extract_all_data.

\* C20 (as claimed): a call that returns fewer than company_count records has
\* emitted the record that reports the extracted/target counts at termination,
\* and one progress record is emitted before each re-sort.
C20_TerminationLogged ==
    /\ (ex.pc = "returned" /\ Len(ex.full_df) < ex.company_count) => ex.termLogs >= 1
    /\ ex.progressLogs = ex.resorts

\* C21 (as claimed): no re-sort is performed while the accumulator already
\* holds at least company_count records, whether its length is exactly
\* company_count or went past it without ever being equal to it.
C21_StopAtOrAboveTarget ==
    [][(ex.pc = "loop" /\ Len(ex.full_df) >= ex.company_count) =>
          /\ ex'.resorts = ex.resorts
          /\ ex'.clicks = ex.clicks]_vars

----------------------------------------------------------------------------
\* Properties of the browser sessions of a run.

\* C23 (as claimed): once extract_data_for_postcode has returned or raised for
\* a target (run.py and run_full_postcodes.py), no browser session created for
\* that target is still open.
C23_NoSessionOutlivesTarget ==
    (run.pc # "idle" /\ run.entry # "outbound") =>
        \A t \in Targets :
            (run.task[t].pc \in {"ingest", "done", "raised"}) => ~run.task[t].session

----------------------------------------------------------------------------
\* Properties of the batch handed from extraction to the store.

\* C22 (as claimed): the batch that format_dataframe returns for a target has
\* pairwise distinct COMPANY values, and its ingest into an empty relation
\* does not fail on the primary key.
C22_DistinctCompanyHandedOver ==
    /\ (fmt.pc \in {"formatted", "ingested"} /\ fmt.result.kind = "frame") =>
          \A i, j \in 1..Len(fmt.result.rows) :
              (i # j) => fmt.result.rows[i]["COMPANY"] # fmt.result.rows[j]["COMPANY"]
    /\ (fmt.pc = "ingested") => fmt.outcome # "IntegrityError"

----------------------------------------------------------------------------
\* Properties of create_database_from_file.

\* C24 (as claimed): a create_database_from_file call on an existing .csv file
\* whose columns match the schema returns with one row per file row inserted
\* and committed, and with the connection of the call closed.
C24_FileRowsCommitted ==
    \A c \in Callers :
        (/\ db.call[c].op = "create_database_from_file"
         /\ db.call[c].file = "data.csv"
         /\ db.call[c].pc \in {"returned", "raised"}) =>
            /\ db.call[c].pc = "returned"
            /\ SeqToSet(db.call[c].rows) \subseteq db.relation
            /\ db.conn[c] = NoConn

====
